---- MODULE Spec2Model ----
(***************************************************************************)
(* A model of pycox/evaluation/metrics.py: the time-dependent concordance  *)
(* index (pair predicates, pair sums, concordance_td), the censoring       *)
(* weighted Brier score, the integrated scores and the partial             *)
(* log-likelihood.                                                         *)
(*                                                                         *)
(* Every function of the module is pure: a call is one action on arguments *)
(* drawn from bounded sets, and records the outcome in `ret`.  The two     *)
(* pair sums run their outer loop in parallel (numba.prange): SpecPar      *)
(* steps through that loop worker by worker.                               *)
(* Numbers are exact: halves are carried as integers counted in halves,    *)
(* quotients as a numerator and a denominator.                             *)
(***************************************************************************)
EXTENDS Integers, FiniteSets, Sequences, TLC

VARIABLES op,    \* the function that was called, "none" before the call
          args,  \* its arguments
          ret,   \* its outcome
          par    \* the workers of a parallel pair sum while it runs

vars == <<op, args, ret, par>>

(***************************************************************************)
(* Bounds of the concordance model.                                        *)
(***************************************************************************)
NSubj == 2      \* number of subjects n
MaxDur == 2     \* durations are 1..MaxDur
MaxSurv == 1    \* survival predictions are the levels 0..MaxSurv
NRows == 1      \* rows of surv

Subj == 1..NSubj
Rows == 1..NRows

\* Python's bool as a number.
B(x) == IF x THEN 1 ELSE 0

\* & and | on 0/1 numbers.
And(a, b) == a * b
Or(a, b) == IF a + b > 0 THEN 1 ELSE 0

RECURSIVE SumTo(_, _)
\* f[1] + ... + f[k]: a loop that adds to a counter.
SumTo(f, k) == IF k = 0 THEN 0 ELSE SumTo(f, k - 1) + f[k]

(***************************************************************************)
(* The pair predicates.  d_i, d_j are the 0/1 event indicators.            *)
(***************************************************************************)
is_comparable(t_i, t_j, d_i, d_j) ==
    Or(And(B(t_i < t_j), d_i), And(B(t_i = t_j), Or(d_i, d_j)))

\* Faulty variant: the earlier subject need not have had the event.
is_comparable_antolini_noevent(t_i, t_j, d_i, d_j) ==
    Or(B(t_i < t_j), And(And(B(t_i = t_j), d_i), B(d_j = 0)))

is_comparable_antolini(t_i, t_j, d_i, d_j) ==
    Or(And(B(t_i < t_j), d_i), And(And(B(t_i = t_j), d_i), B(d_j = 0)))

\* conc of _is_concordant, counted in halves (0, 1 or 2), before it is
\* multiplied by _is_comparable.
conc2(s_i, s_j, t_i, t_j, d_i, d_j) ==
    IF t_i < t_j THEN 2 * B(s_i < s_j) + B(s_i = s_j)
    ELSE IF t_i = t_j THEN
        IF And(d_i, d_j) = 1 THEN 2 - B(s_i # s_j)
        ELSE IF d_i = 1 THEN 2 * B(s_i < s_j) + B(s_i = s_j)
        ELSE IF d_j = 1 THEN 2 * B(s_i > s_j) + B(s_i = s_j)
        ELSE 0
    ELSE 0

\* Faulty variant: the product with _is_comparable is dropped.
is_concordant_ungated(s_i, s_j, t_i, t_j, d_i, d_j) ==
    conc2(s_i, s_j, t_i, t_j, d_i, d_j)

\* Faulty variant: the branch for "only j had the event" compares the wrong way.
is_concordant_flipped(s_i, s_j, t_i, t_j, d_i, d_j) ==
    IF t_i = t_j /\ d_i = 0 /\ d_j = 1
    THEN 2 * B(s_i < s_j) + B(s_i = s_j)
    ELSE conc2(s_i, s_j, t_i, t_j, d_i, d_j) * is_comparable(t_i, t_j, d_i, d_j)

\* _is_concordant, in halves.
is_concordant(s_i, s_j, t_i, t_j, d_i, d_j) ==
    conc2(s_i, s_j, t_i, t_j, d_i, d_j) * is_comparable(t_i, t_j, d_i, d_j)

\* _is_concordant_antolini, in halves (0 or 2).
is_concordant_antolini(s_i, s_j, t_i, t_j, d_i, d_j) ==
    2 * And(B(s_i < s_j), is_comparable_antolini(t_i, t_j, d_i, d_j))

(***************************************************************************)
(* The pair sums: for i in prange(n): for j in range(n): if j != i: ...    *)
(* The parallel execution of the outer loop is modelled by SpecPar below;  *)
(* here the sums are the values of the loops.  A pair function handed to a *)
(* sum is carried by its name and called through call_comparable or        *)
(* call_concordant.                                                        *)
(***************************************************************************)
call_comparable(is_comparable_func, t_i, t_j, d_i, d_j) ==
    IF is_comparable_func = "_is_comparable"
    THEN is_comparable(t_i, t_j, d_i, d_j)
    ELSE is_comparable_antolini(t_i, t_j, d_i, d_j)

call_concordant(is_concordant_func, s_i, s_j, t_i, t_j, d_i, d_j) ==
    IF is_concordant_func = "_is_concordant"
    THEN is_concordant(s_i, s_j, t_i, t_j, d_i, d_j)
    ELSE is_concordant_antolini(s_i, s_j, t_i, t_j, d_i, d_j)

sum_comparable(t, d, is_comparable_func) ==
    LET n == Len(t)
    IN  SumTo([i \in 1..n |->
                 SumTo([j \in 1..n |->
                          IF j # i
                          THEN call_comparable(is_comparable_func,
                                               t[i], t[j], d[i], d[j])
                          ELSE 0], n)], n)

sum_concordant_disc(s, t, d, s_idx, is_concordant_func) ==
    LET n == Len(t)
    IN  SumTo([i \in 1..n |->
                 LET idx == s_idx[i]
                 IN  SumTo([j \in 1..n |->
                              IF j # i
                              THEN call_concordant(is_concordant_func,
                                                   s[idx][i], s[idx][j],
                                                   t[i], t[j], d[i], d[j])
                              ELSE 0], n)], n)

(***************************************************************************)
(* Outcomes of a call.  A number is num/den.                               *)
(***************************************************************************)
Number(n, d) == [kind |-> "number", exc |-> "", num |-> n, den |-> d]
Raised(e) == [kind |-> "raised", exc |-> e, num |-> 0, den |-> 1]
ReturnedObject(e) == [kind |-> "object", exc |-> e, num |-> 0, den |-> 1]

\* a / b of two Python floats, a counted in halves.
Quotient(halves, b) ==
    IF b = 0 THEN Raised("ZeroDivisionError") ELSE Number(halves, 2 * b)

concordance_td(durations, events, surv, surv_idx, method) ==
    IF method = "adj_antolini"
    THEN Quotient(sum_concordant_disc(surv, durations, events, surv_idx,
                                      "_is_concordant"),
                  sum_comparable(durations, events, "_is_comparable"))
    ELSE IF method = "antolini"
    THEN Quotient(sum_concordant_disc(surv, durations, events, surv_idx,
                                      "_is_concordant_antolini"),
                  sum_comparable(durations, events, "_is_comparable_antolini"))
    ELSE ReturnedObject("ValueError")

\* The method strings tried: the two the function knows and one it does not.
Methods == {"antolini", "adj_antolini", "harrell"}

\* The data set: the subjects' durations and event indicators.
ConcData ==
    [durations : [Subj -> 1..MaxDur],
     events    : [Subj -> 0..1]]

\* The values of surv: "Survival function (each row is a duration, and each
\* col an individual)".  A survival function does not increase with time, so a
\* column does not increase down the rows.
SurvivalFunctions ==
    {surv \in [Rows -> [Subj -> 0..MaxSurv]] :
        \A r \in 1..(NRows - 1) : \A j \in Subj : surv[r + 1][j] <= surv[r][j]}

NoRet == [kind |-> "none", exc |-> "", num |-> 0, den |-> 1]

\* No parallel loop is running.
NoPar == [pc |-> "none"]

InitConc ==
    /\ op = "none"
    /\ args \in ConcData
    /\ ret = NoRet
    /\ par = NoPar

\* concordance_td is called on the data set with some predictions surv, some
\* rows surv_idx and the method.
CallConcordance(method) ==
    /\ op = "none"
    /\ op' = method
    /\ \E surv \in SurvivalFunctions, surv_idx \in [Subj -> Rows] :
          /\ args' = [durations |-> args.durations, events |-> args.events,
                      surv |-> surv, surv_idx |-> surv_idx]
          /\ ret' = concordance_td(args.durations, args.events, surv, surv_idx, method)
    /\ UNCHANGED par

NextConc == \E method \in Methods : CallConcordance(method)

SpecConc == InitConc /\ [][NextConc]_vars

(***************************************************************************)
(* partial_log_likelihood_ph.  A log partial hazard is l * ln 2 for a      *)
(* level l, so that its exponential is the integer 2^l; the entry          *)
(* lph - log(cum_ph) of the result is carried as the pair (lph, cum_ph).   *)
(***************************************************************************)
NPll == 3        \* number of subjects
MaxPllDur == 2   \* durations are 1..MaxPllDur
MaxLph == 1      \* log partial hazards are the levels 0..MaxLph

RECURSIVE np_exp(_)
\* np.exp at the level l.
np_exp(l) == IF l = 0 THEN 1 ELSE 2 * np_exp(l - 1)

\* sort_values('duration', ascending=False): the row orders the sort may
\* produce.  The default sort is not stable, so rows of equal duration come in
\* any order.
sort_values_descending(durations) ==
    LET n == Len(durations)
    IN  {o \in [1..n -> 1..n] :
            /\ \A k \in 1..(n - 1) : durations[o[k]] >= durations[o[k + 1]]
            /\ \A a, b \in 1..n : o[a] = o[b] => a = b}

\* x.pipe(np.exp).cumsum() along the sorted rows.
cumsum_exp(lph, order) ==
    [k \in 1..Len(order) |-> SumTo([m \in 1..Len(order) |-> np_exp(lph[order[m]])], k)]

Max(S) == CHOOSE x \in S : \A y \in S : y <= x
Min(S) == CHOOSE x \in S : \A y \in S : x <= y

\* Faulty variant: the cumulative sum is used as it is, without the group maximum.
transform_none(cum, durations, order) == cum

\* .groupby(x['duration']).transform('max')
groupby_transform_max(cum, durations, order) ==
    [k \in 1..Len(order) |->
        Max({cum[m] : m \in {m \in 1..Len(order) :
                                durations[order[m]] = durations[order[k]]}})]

partial_log_likelihood_ph(log_partial_hazards, durations, events, mean, order) ==
    LET cum_ph == groupby_transform_max(cumsum_exp(log_partial_hazards, order),
                                        durations, order)
        row(i) == CHOOSE k \in 1..Len(order) : order[k] = i
        kept == {i \in 1..Len(durations) : events[i] = 1}
        pll == [i \in kept |-> [lph |-> log_partial_hazards[i],
                                cum_ph |-> cum_ph[row(i)]]]
    IN  [kind |-> IF mean THEN "mean" ELSE "series", pll |-> pll]

PllArgs ==
    [log_partial_hazards : [1..NPll -> 0..MaxLph],
     durations           : [1..NPll -> 1..MaxPllDur],
     events              : [1..NPll -> 0..1]]

InitPll ==
    /\ op = "none"
    /\ args \in PllArgs
    /\ ret = NoRet
    /\ par = NoPar

CallPartialLogLikelihood(mean) ==
    /\ op = "none"
    /\ op' = "partial_log_likelihood_ph"
    /\ \E order \in sort_values_descending(args.durations) :
          ret' = partial_log_likelihood_ph(args.log_partial_hazards, args.durations,
                                           args.events, mean, order)
    /\ UNCHANGED <<args, par>>

NextPll == \E mean \in BOOLEAN : CallPartialLogLikelihood(mean)

SpecPll == InitPll /\ [][NextPll]_vars

(***************************************************************************)
(* brier_score.  A probability is k / ProbDen for a level k; a score is a  *)
(* fraction num/den, or inf or nan where numpy divides by zero.            *)
(***************************************************************************)
NBrier == 2      \* number of subjects
MaxBDur == 2     \* durations are 1..MaxBDur, evaluation times 0..MaxBDur+1
ProbDen == 2     \* probabilities are 0/ProbDen .. ProbDen/ProbDen

Frac(n, d) == [fin |-> "finite", num |-> n, den |-> d]
Inf == [fin |-> "inf", num |-> 0, den |-> 1]
NaN == [fin |-> "nan", num |-> 0, den |-> 1]

\* x / y of numpy floats, x >= 0 and y >= 0: no error, inf or nan at y = 0.
np_divide(x, y) ==
    IF x.fin # "finite" THEN x
    ELSE IF y.num = 0 THEN (IF x.num = 0 THEN NaN ELSE Inf)
    ELSE Frac(x.num * y.den, x.den * y.num)

\* x + y of non-negative numpy floats.
np_add(x, y) ==
    IF x.fin = "nan" \/ y.fin = "nan" THEN NaN
    ELSE IF x.fin = "inf" \/ y.fin = "inf" THEN Inf
    ELSE Frac(x.num * y.den + y.num * x.den, x.den * y.den)

RECURSIVE np_sum(_, _)
\* np.sum of the entries of x selected by the mask S; 0 for an empty selection.
np_sum(x, S) ==
    IF S = {} THEN Frac(0, 1)
    ELSE LET i == CHOOSE j \in S : TRUE IN np_add(x[i], np_sum(x, S \ {i}))

RECURSIVE kaplan_meier(_, _, _)
\* KaplanMeierFitter().fit(durations, observed), then its survival curve at
\* time u: the product over the times v <= u of (1 - observed at v / at risk
\* at v); 1 before the first duration.
kaplan_meier(durations, observed, u) ==
    IF u <= 0 THEN Frac(1, 1)
    ELSE LET prev == kaplan_meier(durations, observed, u - 1)
             at_risk == Cardinality({i \in DOMAIN durations : durations[i] >= u})
             deaths == Cardinality({i \in DOMAIN durations :
                                       durations[i] = u /\ observed[i] = 1})
         IN  IF at_risk = 0 THEN prev
             ELSE Frac(prev.num * (at_risk - deaths), prev.den * at_risk)

\* Faulty variant: the event indicator is not looked at.
died_any(durations, events, time_) ==
    {i \in DOMAIN durations : durations[i] <= time_}

\* died = ((durations <= time_) & (events == True))
died(durations, events, time_) ==
    {i \in DOMAIN durations : durations[i] <= time_ /\ events[i] = 1}

\* survived = (durations > time_)
survived(durations, time_) == {i \in DOMAIN durations : durations[i] > time_}

brier_score(times, prob_alive, durations, events) ==
    LET n == Len(durations)
        censored == [i \in 1..n |-> 1 - events[i]]
        km_censor_at_durations ==
            [i \in 1..n |-> kaplan_meier(durations, censored, durations[i])]
        km_censor_at_times ==
            [k \in 1..Len(times) |-> kaplan_meier(durations, censored, times[k])]
        compute_score(time_, km_censor_at_time, prob_alive_) ==
            LET event_part ==
                    [i \in 1..n |->
                        np_divide(Frac(prob_alive_[i] * prob_alive_[i], ProbDen * ProbDen),
                                  km_censor_at_durations[i])]
                survived_part ==
                    [i \in 1..n |->
                        np_divide(Frac((ProbDen - prob_alive_[i]) * (ProbDen - prob_alive_[i]),
                                       ProbDen * ProbDen),
                                  km_censor_at_time)]
            IN  np_divide(np_add(np_sum(event_part, died(durations, events, time_)),
                                 np_sum(survived_part, survived(durations, time_))),
                          Frac(n, 1))
    IN  [k \in 1..Len(times) |->
            compute_score(times[k], km_censor_at_times[k], prob_alive[k])]

\* A call with a single evaluation time, which brier_score wraps into a list.
BrierArgs ==
    [times      : 0..(MaxBDur + 1),
     prob_alive : [1..1 -> [1..NBrier -> 0..ProbDen]],
     durations  : [1..NBrier -> 1..MaxBDur],
     events     : [1..NBrier -> 0..1]]

InitBrier ==
    /\ op = "none"
    /\ args \in BrierArgs
    /\ ret = NoRet
    /\ par = NoPar

CallBrierScore ==
    /\ op = "none"
    /\ op' = "brier_score"
    /\ ret' = [kind |-> "array",
               scores |-> brier_score(<<args.times>>, args.prob_alive,
                                      args.durations, args.events)]
    /\ UNCHANGED <<args, par>>

NextBrier == CallBrierScore

SpecBrier == InitBrier /\ [][NextBrier]_vars

(***************************************************************************)
(* The integrated scores.  The pointwise scores are the array that         *)
(* brier_score or binomial_log_likelihood returns for the call's           *)
(* prob_alive, durations and events: an entry is a finite score, one of   *)
(* 0..MaxScore, or nan or inf (a nan in a row of prob_alive makes the      *)
(* entry of that row nan).  The integral is carried as the samples handed  *)
(* to scipy.integrate.simps.                                               *)
(***************************************************************************)
MaxGrid == 3       \* a grid has 1..MaxGrid points
MaxGridTime == 3   \* grid times are 1..MaxGridTime
MaxScore == 1      \* finite pointwise scores are 0..MaxScore

\* pd.Series(x).is_monotonic_increasing: non-decreasing.
is_monotonic_increasing(x) == \A k \in 1..(Len(x) - 1) : x[k] <= x[k + 1]

np_isfinite(v) == v.fin = "finite"

RECURSIVE boolean_index(_, _)
\* x[mask] of a numpy array x and a boolean array mask.
boolean_index(x, mask) ==
    IF x = <<>> THEN <<>>
    ELSE (IF Head(mask) THEN <<Head(x)>> ELSE <<>>)
         \o boolean_index(Tail(x), Tail(mask))

\* scipy.integrate.simps(y, x): the integral of the samples (x, y).
simps(y, x) == [y |-> y, x |-> x]

Integrated(integral, span) ==
    [kind |-> "number", exc |-> "", integral |-> integral, span |-> span]

\* Faulty variant: the times of the dropped scores are kept.
integrated_brier_score_numpy_nomask(times_grid, b_scores) ==
    IF ~is_monotonic_increasing(times_grid) THEN Raised("AssertionError")
    ELSE LET is_finite == [k \in 1..Len(b_scores) |-> np_isfinite(b_scores[k])]
             scores == boolean_index(b_scores, is_finite)
         IN  IF Len(scores) = 0 THEN Raised("IndexError")
             ELSE Integrated(simps(scores, times_grid),
                             times_grid[Len(times_grid)] - times_grid[1])

\* integrated_brier_score_numpy, b_scores being the value of
\* brier_score(times_grid, prob_alive, durations, events).
integrated_brier_score_numpy(times_grid, b_scores) ==
    IF ~is_monotonic_increasing(times_grid) THEN Raised("AssertionError")
    ELSE LET is_finite == [k \in 1..Len(b_scores) |-> np_isfinite(b_scores[k])]
             scores == boolean_index(b_scores, is_finite)
             grid == boolean_index(times_grid, is_finite)
         IN  \* simps and times_grid[-1] index an empty array.
             IF Len(grid) = 0 THEN Raised("IndexError")
             ELSE Integrated(simps(scores, grid), grid[Len(grid)] - grid[1])

\* integrated_binomial_log_likelihood_numpy, scores_ being the value of
\* binomial_log_likelihood(times_grid, prob_alive, durations, events).
integrated_binomial_log_likelihood_numpy(times_grid, scores_) ==
    IF ~is_monotonic_increasing(times_grid) THEN Raised("AssertionError")
    ELSE LET is_finite == [k \in 1..Len(scores_) |-> np_isfinite(scores_[k])]
             scores == boolean_index(scores_, is_finite)
             grid == boolean_index(times_grid, is_finite)
         IN  IF Len(grid) = 0 THEN Raised("IndexError")
             ELSE Integrated(simps(scores, grid), grid[Len(grid)] - grid[1])

ScoreValues == {Frac(v, 1) : v \in 0..MaxScore} \cup {NaN, Inf}

IntArgs ==
    UNION {[times_grid : [1..len -> 1..MaxGridTime],
            pointwise  : [1..len -> ScoreValues]] : len \in 1..MaxGrid}

InitInt ==
    /\ op = "none"
    /\ args \in IntArgs
    /\ ret = NoRet
    /\ par = NoPar

CallIntegratedBrierScore ==
    /\ op = "none"
    /\ op' = "integrated_brier_score_numpy"
    /\ ret' = integrated_brier_score_numpy(args.times_grid, args.pointwise)
    /\ UNCHANGED <<args, par>>

CallIntegratedBinomialLogLikelihood ==
    /\ op = "none"
    /\ op' = "integrated_binomial_log_likelihood_numpy"
    /\ ret' = integrated_binomial_log_likelihood_numpy(args.times_grid, args.pointwise)
    /\ UNCHANGED <<args, par>>

NextInt == CallIntegratedBrierScore \/ CallIntegratedBinomialLogLikelihood

SpecInt == InitInt /\ [][NextInt]_vars

(***************************************************************************)
(* The parallel pair sums _sum_comparable and _sum_concordant_disc.        *)
(* numba runs the iterations i of `for i in numba.prange(n)` on several    *)
(* workers, any iteration on any worker and in any order; `count += ...`   *)
(* in the loop is a reduction: each worker adds to a count of its own that *)
(* starts at 0, and the counts are added up after the loop.  The inner     *)
(* loop over j runs in sequence within its iteration.                      *)
(*                                                                         *)
(* par.todo  the iterations i not yet started                              *)
(* par.cur   the iteration each worker runs, 0 when it runs none           *)
(* par.j     the position of each worker's inner loop                      *)
(* par.count each worker's count                                           *)
(* par.added how many times each worker has added the term of each pair    *)
(* The data is binary (two durations, two prediction levels, one row of    *)
(* surv) and the pair functions handed in are those of the default method  *)
(* 'adj_antolini': SpecPar explores the schedules.                         *)
(***************************************************************************)
ParSubj == 2      \* number of subjects n
ParWorkers == 2   \* number of workers

Workers == 1..ParWorkers
ParPairs == (1..ParSubj) \X (1..ParSubj)

\* Faulty variant: the test `if j != i` is missing.
skips_never(i, j) == FALSE

\* if j != i: the pair (i, i) is skipped.
skips(i, j) == j = i

\* The term the loop body adds for the pair (i, j), for the function the sum
\* was called with (in halves for _sum_concordant_disc).
term(i, j) ==
    IF op = "_sum_comparable"
    THEN call_comparable(args.is_comparable_func,
                         args.t[i], args.t[j], args.d[i], args.d[j])
    ELSE LET idx == args.s_idx[i]
         IN  call_concordant(args.is_concordant_func,
                             args.s[idx][i], args.s[idx][j],
                             args.t[i], args.t[j], args.d[i], args.d[j])

\* The arguments of _sum_comparable(t, d, is_comparable_func).
SumComparableArgs ==
    [t : [1..ParSubj -> 1..2],
     d : [1..ParSubj -> 0..1],
     is_comparable_func : {"_is_comparable"}]

\* The arguments of _sum_concordant_disc(s, t, d, s_idx, is_concordant_func).
SumConcordantArgs ==
    [s     : [1..1 -> [1..ParSubj -> 0..1]],
     t     : [1..ParSubj -> 1..2],
     d     : [1..ParSubj -> 0..1],
     s_idx : [1..ParSubj -> 1..1],
     is_concordant_func : {"_is_concordant"}]

\* The call has entered the parallel loop.
InitPar ==
    /\ \/ op = "_sum_comparable" /\ args \in SumComparableArgs
       \/ op = "_sum_concordant_disc" /\ args \in SumConcordantArgs
    /\ ret = NoRet
    /\ par = [pc    |-> "loop",
              todo  |-> 1..ParSubj,
              cur   |-> [w \in Workers |-> 0],
              j     |-> [w \in Workers |-> 0],
              count |-> [w \in Workers |-> 0],
              added |-> [w \in Workers |-> [p \in ParPairs |-> 0]]]

\* Worker w starts an iteration i of the outer loop.
BeginIteration(w) ==
    /\ par.pc = "loop"
    /\ par.cur[w] = 0
    /\ \E i \in par.todo :
          par' = [par EXCEPT !.todo = @ \ {i}, !.cur[w] = i, !.j[w] = 1]
    /\ UNCHANGED <<op, args, ret>>

\* Worker w runs one pass of the inner loop of its iteration.
InnerStep(w) ==
    /\ par.pc = "loop"
    /\ par.cur[w] # 0
    /\ LET i == par.cur[w]
           j == par.j[w]
           last == j = ParSubj
       IN  par' = [par EXCEPT
                     !.count[w] = IF skips(i, j) THEN @ ELSE @ + term(i, j),
                     !.added[w][<<i, j>>] = IF skips(i, j) THEN @ ELSE @ + 1,
                     !.j[w] = IF last THEN 0 ELSE j + 1,
                     !.cur[w] = IF last THEN 0 ELSE i]
    /\ UNCHANGED <<op, args, ret>>

\* After the loop the workers' counts are added to the initial count 0, and
\* the sum is returned.
Reduce ==
    /\ par.pc = "loop"
    /\ par.todo = {}
    /\ \A w \in Workers : par.cur[w] = 0
    /\ par' = [par EXCEPT !.pc = "done"]
    /\ ret' = Number(0 + SumTo(par.count, ParWorkers), 1)
    /\ UNCHANGED <<op, args>>

NextPar ==
    \/ \E w \in Workers : BeginIteration(w)
    \/ \E w \in Workers : InnerStep(w)
    \/ Reduce

SpecPar == InitPar /\ [][NextPar]_vars

(***************************************************************************)
(* Properties of concordance_td (checked under SpecConc).                  *)
(***************************************************************************)
ValidMethods == {"antolini", "adj_antolini"}

\* The prediction of subject j in the row used for the pairs (i, .).
SurvAt(i, j) == args.surv[args.surv_idx[i]][j]

Comparable(m, i, j) ==
    IF m = "adj_antolini"
    THEN is_comparable(args.durations[i], args.durations[j],
                       args.events[i], args.events[j])
    ELSE is_comparable_antolini(args.durations[i], args.durations[j],
                                args.events[i], args.events[j])

\* The concordant contribution of the ordered pair (i, j), in halves.
Contribution(m, i, j) ==
    IF m = "adj_antolini"
    THEN is_concordant(SurvAt(i, i), SurvAt(i, j), args.durations[i],
                       args.durations[j], args.events[i], args.events[j])
    ELSE is_concordant_antolini(SurvAt(i, i), SurvAt(i, j), args.durations[i],
                                args.durations[j], args.events[i], args.events[j])

Pairs == {p \in Subj \X Subj : p[1] # p[2]}
SomeComparable(m) == \E p \in Pairs : Comparable(m, p[1], p[2]) = 1
NoTiedDurations == \A p \in Pairs : args.durations[p[1]] # args.durations[p[2]]
IsNumber(r, n, d) == r.kind = "number" /\ r.num * d = n * r.den
SameOutcome(a, b) ==
    /\ a.kind = b.kind
    /\ a.exc = b.exc
    /\ a.num * b.den = b.num * a.den
OtherMethod(m) == IF m = "antolini" THEN "adj_antolini" ELSE "antolini"
OtherOutcome ==
    concordance_td(args.durations, args.events, args.surv, args.surv_idx,
                   OtherMethod(op))

\* C1: a call with an unknown method string raises; it never hands back a
\* value.  (Violated: the ValueError object is returned.)
C1_UnknownMethodRaises ==
    (op \in Methods \ ValidMethods) => ret.kind = "raised"

\* C2: with at least one comparable pair and a survival matrix whose rows are
\* constant, method 'adj_antolini' returns exactly 0.5, ties in the durations
\* and any mix of events allowed.  (Violated: two tied subjects who both had
\* the event count 1 each.)
C2_NonInformativeIsHalf ==
    ( /\ op = "adj_antolini"
      /\ \A r \in Rows : \A i, j \in Subj : args.surv[r][i] = args.surv[r][j]
      /\ SomeComparable(op) )
    => IsNumber(ret, 1, 2)

\* C3 as stated: for every valid input and both methods the call returns a
\* number in [0,1].  (Violated: with no comparable pair the quotient is 0/0.)
C3_AlwaysANumberInUnitInterval ==
    (op \in ValidMethods)
    => (ret.kind = "number" /\ 0 <= ret.num /\ ret.num <= ret.den)

\* C3 amended: each ordered pair's concordant contribution lies in [0,1] and is
\* non-zero only when the pair is comparable under the same method; when some
\* ordered pair is comparable the call returns a number in [0,1], and when none
\* is the division by zero is raised.
C3_UnitIntervalWhenComparable ==
    (op \in ValidMethods)
    => /\ \A p \in Pairs :
            LET c == Contribution(op, p[1], p[2])
            IN  /\ c \in 0..2
                /\ c # 0 => Comparable(op, p[1], p[2]) = 1
       /\ IF SomeComparable(op)
          THEN ret.kind = "number" /\ 0 <= ret.num /\ ret.num <= ret.den
          ELSE ret = Raised("ZeroDivisionError")

C3_Witness ==
    /\ op \in ValidMethods
    /\ ~NoTiedDurations
    /\ ret.kind = "number"
    /\ 0 < ret.num
    /\ ret.num < ret.den

\* C4 as stated: with no two subjects sharing a duration both methods return the
\* same value, equal predictions allowed.  (Violated: a comparable pair with
\* equal predictions counts 0.5 under 'adj_antolini' and 0 under 'antolini'.)
C4_MethodsAgreeWithoutTiedDurations ==
    (op \in ValidMethods /\ NoTiedDurations) => SameOutcome(ret, OtherOutcome)

\* No comparable pair has equal predictions in the row it is scored in.
NoTiedPredictions ==
    \A p \in Pairs :
        Comparable("adj_antolini", p[1], p[2]) = 1
            => SurvAt(p[1], p[1]) # SurvAt(p[1], p[2])

\* C4 amended: with no two subjects sharing a duration the comparable sums of
\* the two methods coincide pair by pair; if moreover no comparable pair has
\* equal predictions, the concordant sums coincide pair by pair and both
\* methods have the same outcome (the same number, or the same division by
\* zero when no pair is comparable).
C4_MethodsAgreeWithoutAnyTie ==
    (op \in ValidMethods /\ NoTiedDurations)
    => /\ \A p \in Pairs :
            Comparable("antolini", p[1], p[2]) = Comparable("adj_antolini", p[1], p[2])
       /\ NoTiedPredictions
            => /\ \A p \in Pairs : Contribution("antolini", p[1], p[2])
                                   = Contribution("adj_antolini", p[1], p[2])
               /\ SameOutcome(ret, OtherOutcome)

C4_Witness ==
    /\ op \in ValidMethods
    /\ NoTiedDurations
    /\ NoTiedPredictions
    /\ IsNumber(ret, 1, 1)

\* Of a comparable pair (i, j): the subject with the earlier event, or for tied
\* durations a subject of the pair that had the event, has the strictly lower
\* prediction in the row surv_idx[i].
EarlierIsLower(i, j) ==
    IF args.durations[i] < args.durations[j]
    THEN SurvAt(i, i) < SurvAt(i, j)
    ELSE \/ args.events[i] = 1 /\ SurvAt(i, i) < SurvAt(i, j)
         \/ args.events[j] = 1 /\ SurvAt(i, j) < SurvAt(i, i)

PerfectDiscrimination ==
    /\ \A p \in Pairs : Comparable(op, p[1], p[2]) = 1 => EarlierIsLower(p[1], p[2])
    /\ SomeComparable(op)

\* C5 as stated: for either method, if some pair is comparable and in every
\* comparable pair the earlier (or, tied, an event) subject has the strictly
\* lower prediction, the call returns exactly 1.0, tied durations included.
\* (Violated: two tied subjects who both had the event count 0.5 each.)
C5_PerfectDiscriminationIsOne ==
    (op \in ValidMethods /\ PerfectDiscrimination) => IsNumber(ret, 1, 1)

\* In no comparable pair with tied durations both subjects had the event.
NoTiedEvents ==
    \A p \in Pairs :
        ( /\ Comparable(op, p[1], p[2]) = 1
          /\ args.durations[p[1]] = args.durations[p[2]] )
        => args.events[p[1]] + args.events[p[2]] = 1

\* C5 amended: the same, provided that in no comparable pair with tied durations
\* both subjects had the event.
C5_PerfectDiscriminationIsOneUnlessTiedEvents ==
    (op \in ValidMethods /\ ~IsNumber(ret, 1, 1))
    => ~(PerfectDiscrimination /\ NoTiedEvents)

C5_Witness ==
    /\ op = "adj_antolini"
    /\ ~NoTiedDurations
    /\ PerfectDiscrimination
    /\ NoTiedEvents
    /\ IsNumber(ret, 1, 1)

(***************************************************************************)
(* Properties of partial_log_likelihood_ph (checked under SpecPll).        *)
(***************************************************************************)
RECURSIVE SumOver(_, _)
SumOver(S, f) ==
    IF S = {} THEN 0
    ELSE LET x == CHOOSE y \in S : TRUE IN f[x] + SumOver(S \ {x}, f)

\* The sum of exp(lph) over the subjects still at risk at the duration of i.
RiskSetSum(i) ==
    LET hazard == [j \in 1..NPll |-> np_exp(args.log_partial_hazards[j])]
    IN  SumOver({j \in 1..NPll : args.durations[j] >= args.durations[i]}, hazard)

\* C8: the denominator of each event subject i is the sum of exp(lph) over all
\* subjects with duration >= duration_i, censored ones included; two event
\* subjects with the same duration get the same denominator, and the result
\* has an entry for the event subjects only.
C8_DenominatorIsRiskSetSum ==
    (op = "partial_log_likelihood_ph")
    => /\ DOMAIN ret.pll = {i \in 1..NPll : args.events[i] = 1}
       /\ \A i \in DOMAIN ret.pll :
            /\ ret.pll[i].lph = args.log_partial_hazards[i]
            /\ ret.pll[i].cum_ph = RiskSetSum(i)
       /\ \A i, j \in DOMAIN ret.pll :
            args.durations[i] = args.durations[j]
                => ret.pll[i].cum_ph = ret.pll[j].cum_ph

C8_Witness ==
    /\ op = "partial_log_likelihood_ph"
    /\ \E i, j, c \in 1..NPll :
          /\ i # j
          /\ args.events[i] = 1 /\ args.events[j] = 1 /\ args.events[c] = 0
          /\ args.durations[i] = args.durations[j]
          /\ args.durations[c] >= args.durations[i]
          /\ args.log_partial_hazards[i] # args.log_partial_hazards[j]
          /\ ret.pll[i].cum_ph = ret.pll[j].cum_ph
          /\ ret.pll[i].cum_ph
               >= np_exp(args.log_partial_hazards[i]) + np_exp(args.log_partial_hazards[j])
                    + np_exp(args.log_partial_hazards[c])

(***************************************************************************)
(* Properties of brier_score (checked under SpecBrier).                    *)
(***************************************************************************)
\* C9: with every probability in [0,1], each entry brier_score returns is a
\* finite number in [0,1].
C9_BrierScoreInUnitInterval ==
    (op = "brier_score")
    => \A k \in DOMAIN ret.scores :
          /\ ret.scores[k].fin = "finite"
          /\ ret.scores[k].den > 0
          /\ 0 <= ret.scores[k].num
          /\ ret.scores[k].num <= ret.scores[k].den

\* A subject censored before t, and a subject that died by t and is weighted
\* by more than 1 for it; the score reaches 1.
C9_Witness ==
    /\ op = "brier_score"
    /\ \E i, j \in 1..NBrier :
          /\ args.events[i] = 0 /\ args.durations[i] < args.durations[j]
          /\ args.events[j] = 1 /\ args.durations[j] <= args.times
    /\ ret.scores[1].fin = "finite"
    /\ ret.scores[1].num = ret.scores[1].den

(***************************************************************************)
(* Properties of the integrated scores (checked under SpecInt).            *)
(***************************************************************************)
IntegratedOps ==
    {"integrated_brier_score_numpy", "integrated_binomial_log_likelihood_numpy"}

StrictlyIncreasing(x) == \A k \in 1..(Len(x) - 1) : x[k] < x[k + 1]

\* C6: both integrated scores fail with an assertion error for every grid that
\* is not strictly increasing.  (Violated: a grid with two equal consecutive
\* times passes the check, which is for a non-decreasing grid.)
C6_NonStrictGridRaises ==
    (op \in IntegratedOps /\ ~StrictlyIncreasing(args.times_grid))
    => (ret.kind = "raised" /\ ret.exc = "AssertionError")

\* The grid points whose score is finite, and the m-th of them.
Kept == {k \in DOMAIN args.pointwise : args.pointwise[k] \notin {NaN, Inf}}
KeptAt(m) == CHOOSE k \in Kept : Cardinality({j \in Kept : j <= k}) = m

\* The call returned the integral over exactly the kept (time, score) pairs,
\* divided by (last - first) of the kept times.
IntegratedOverKept ==
    /\ ret.kind = "number"
    /\ Len(ret.integral.x) = Cardinality(Kept)
    /\ Len(ret.integral.y) = Cardinality(Kept)
    /\ \A m \in 1..Cardinality(Kept) :
          /\ ret.integral.x[m] = args.times_grid[KeptAt(m)]
          /\ ret.integral.y[m] = args.pointwise[KeptAt(m)]
    /\ ret.span = args.times_grid[Max(Kept)] - args.times_grid[Min(Kept)]

\* C7 as stated: for every strictly increasing grid and every pattern of
\* finite and non-finite scores the call completes, having integrated over
\* the kept pairs, whatever number of grid points is kept.  (Violated: with no
\* finite score nothing is kept and indexing the empty grid raises.)
C7_DropsNonFiniteAndCompletes ==
    (op \in IntegratedOps /\ StrictlyIncreasing(args.times_grid))
    => IntegratedOverKept

\* C7 amended: the same when at least one grid point has a finite score; when
\* none has, the call raises an index error.
C7_DropsNonFiniteAndCompletesIfAnyKept ==
    (op \in IntegratedOps /\ StrictlyIncreasing(args.times_grid))
    => IF Kept = {} THEN ret = Raised("IndexError") ELSE IntegratedOverKept

C7_Witness ==
    /\ op \in IntegratedOps
    /\ StrictlyIncreasing(args.times_grid)
    /\ Cardinality(Kept) >= 2
    /\ Cardinality(Kept) < Len(args.times_grid)
    /\ args.pointwise[1] = Inf
    /\ ret.kind = "number"
    /\ ret.span > 0
    /\ Len(ret.integral.x) = Cardinality(Kept)

(***************************************************************************)
(* Properties of the parallel pair sums (checked under SpecPar).           *)
(***************************************************************************)
\* The value of the sequential double loop.
SequentialSum ==
    IF op = "_sum_comparable"
    THEN sum_comparable(args.t, args.d, args.is_comparable_func)
    ELSE sum_concordant_disc(args.s, args.t, args.d, args.s_idx,
                             args.is_concordant_func)

TimesAdded(p) == SumTo([w \in Workers |-> par.added[w][p]], ParWorkers)

\* C10: whatever the schedule, a worker's count holds the terms of the pairs
\* that worker has added and nothing else, no pair is ever added twice and no
\* pair (i, i) is added; when the sum returns, every ordered pair (i, j) with
\* i # j has been added exactly once and the result is the sequential sum.
C10_ParallelSumIsSequentialSum ==
    (par.pc \in {"loop", "done"})
    => /\ \A w \in Workers :
            par.count[w]
              = SumTo([i \in 1..ParSubj |->
                         SumTo([j \in 1..ParSubj |->
                                  LET a == par.added[w][<<i, j>>]
                                  IN  IF a = 0 THEN 0 ELSE a * term(i, j)],
                               ParSubj)],
                      ParSubj)
       /\ \A p \in ParPairs : TimesAdded(p) <= (IF p[1] = p[2] THEN 0 ELSE 1)
       /\ par.pc = "done"
            => /\ \A p \in ParPairs : p[1] # p[2] => TimesAdded(p) = 1
               /\ ret = Number(SequentialSum, 1)

\* The sum has returned a non-zero count after both workers ran iterations.
C10_Witness ==
    /\ par.pc = "done"
    /\ ret.num > 0
    /\ \A w \in Workers : \E p \in ParPairs : par.added[w][p] = 1

====
